---- MODULE Spec2Model ----
(***************************************************************************)
(* mrt-parser-rs: the MRT envelope loop (src/main.rs) and the BGP path     *)
(* attribute decoder (src/bgp.rs).                                         *)
(*                                                                         *)
(* A Rust slice &[u8] is modelled by the sequence of the bytes it views;   *)
(* a nom parser takes such a slice and yields a record                     *)
(*   [st |-> "Ok" | "Err" | "Panic", rest |-> remaining slice, val |-> _]  *)
(* "Err" is nom's Err(Incomplete/Error) value, "Panic" is a Rust panic     *)
(* (unwrap on Err, slice index out of range, panic!, checked overflow).    *)
(***************************************************************************)
EXTENDS Integers, Sequences, FiniteSets, TLC

VARIABLES
    \* ---- parse_bgp_path_attrs (src/bgp.rs) ----
    attr_buffer,    \* the caller's buffer handed to parse_bgp_path_attrs
    input,          \* `mut input: &[u8]`, the slice not yet consumed
    length,         \* `length: u16`, the byte budget
    total_length,   \* `let mut total_length = 0`
    results,        \* `let mut results: Vec<BGPPathAttribute>`
    attr_pc,        \* "idle" (not called) | "loop" | "ok" (returned Ok) | "panic"
    \* ---- main (src/main.rs) ----
    file,           \* the decompressed file, `buffer` before the loop
    buffer,         \* `let mut buffer = buffer.as_slice()`, the slice not yet consumed
    header,         \* the MRTHeader of the last iteration (`result`), or NoHeader
    header_at,      \* offset in file at which that header was read
    outcome,        \* the last iteration: "none" | "HeaderErr" | "Ok" | "Err" | "Unhandled" | "Panic"
    main_pc,        \* "idle" | "loop" | "panic"
    \* ---- prefix_octet_count (src/main.rs) ----
    poc_arg,        \* the argument `prefix_length: u8`
    poc_res,        \* what the call produced
    poc_pc,         \* "idle" | "call" | "done"
    \* ---- parse_as_path (src/bgp.rs) ----
    path_wire,      \* the segments the payload is the encoding of
    path_buffer,    \* the argument `buffer: &Vec<u8>`, an AS_PATH payload
    path_res,       \* what the call produced
    path_pc,        \* "idle" | "call" | "done"
    \* ---- parse_mrt_table_dump_v2_ipv4_unicast (src/main.rs) ----
    rib_header,     \* the argument `header: &MRTHeader`
    rib_input,      \* the argument `input: &[u8]`, the record body
    rib_res,        \* what the call produced
    rib_pc,         \* "idle" | "call" | "done"
    \* ---- the build ----
    overflow_checks \* TRUE: arithmetic overflow panics (debug); FALSE: it wraps (release)

attrVars == <<attr_buffer, input, length, total_length, results, attr_pc>>

mainVars == <<file, buffer, header, header_at, outcome, main_pc>>

pocVars == <<poc_arg, poc_res, poc_pc>>

pathVars == <<path_wire, path_buffer, path_res, path_pc>>

ribVars == <<rib_header, rib_input, rib_res, rib_pc>>

vars == <<attr_buffer, input, length, total_length, results, attr_pc,
          file, buffer, header, header_at, outcome, main_pc,
          poc_arg, poc_res, poc_pc,
          path_wire, path_buffer, path_res, path_pc,
          rib_header, rib_input, rib_res, rib_pc, overflow_checks>>

(***************************************************************************)
(* Bounds of the model.                                                    *)
(***************************************************************************)
\* longest attribute buffer drawn in AttrInit
MaxBuf == 7

\* the byte values attribute buffers are drawn from: 16 = 0x10 is the
\* extended-length flag (and, as a length byte, a length no buffer holds)
ByteVals == {0, 1, 16}

RECURSIVE SeqsUpTo(_, _)
SeqsUpTo(S, n) ==
    IF n = 0 THEN {<<>>}
    ELSE LET shorter == SeqsUpTo(S, n - 1)
         IN  shorter \cup {Append(s, b) : s \in {t \in shorter : Len(t) = n - 1}, b \in S}

Drop(s, n) == SubSeq(s, n + 1, Len(s))
Take(s, n) == SubSeq(s, 1, n)

(***************************************************************************)
(* Bind(v, F) is F(v) with v evaluated once: the `name: parser >>` step of *)
(* nom's do_parse!, and a Rust `let`.                                      *)
(***************************************************************************)
Bind(v, F(_)) == CHOOSE r \in {F(x) : x \in {v}} : TRUE

(***************************************************************************)
(* nom primitives on a byte slice.                                         *)
(***************************************************************************)
Ok(rest, val) == [st |-> "Ok", rest |-> rest, val |-> val]
Fail(st, rest) == [st |-> st, rest |-> rest, val |-> 0]

be_u8(i) ==
    IF Len(i) < 1 THEN Fail("Err", i)
    ELSE Ok(Drop(i, 1), i[1])

be_u16(i) ==
    IF Len(i) < 2 THEN Fail("Err", i)
    ELSE Ok(Drop(i, 2), i[1] * 256 + i[2])

(***************************************************************************)
(* src/bgp.rs                                                              *)
(***************************************************************************)
BGPPathAttribute(flags, code, len, data) ==
    [flags |-> flags, code |-> code, len |-> len, data |-> data]

\* a faulty variant of the flag test: extended only when the flags byte is
\* 0x10 itself
ExtendedLength_WholeByte(flags) == flags = 16

\* flags & 0x10 == 0x10
ExtendedLength(flags) == (flags \div 16) % 2 = 1

read_path_attr_length(i, flags) ==
    IF ExtendedLength(flags) THEN be_u16(i)
    ELSE Bind(be_u8(i), LAMBDA tmp :
         IF tmp.st = "Ok" THEN Ok(tmp.rest, tmp.val)
         ELSE Fail("Panic", i))                 \* tmp.unwrap()

\* a faulty variant of parse_bgp_attr_payload: the payload slice ends one
\* byte early
parse_bgp_attr_payload_ShortSlice(i, code, len) ==
    IF len > Len(i) THEN Fail("Panic", i)
    ELSE Ok(Drop(i, len), Take(i, IF len > 0 THEN len - 1 ELSE 0))

parse_bgp_attr_payload(i, code, len) ==
    IF len > Len(i) THEN Fail("Panic", i)       \* &input[len..] out of range
    ELSE Ok(Drop(i, len), Take(i, len))

parse_bgp_path_attr(i) ==
    Bind(be_u8(i), LAMBDA flags :
    IF flags.st # "Ok" THEN Fail(flags.st, i) ELSE
    Bind(be_u8(flags.rest), LAMBDA code :
    IF code.st # "Ok" THEN Fail(code.st, i) ELSE
    Bind(read_path_attr_length(code.rest, flags.val), LAMBDA len :
    IF len.st # "Ok" THEN Fail(len.st, i) ELSE
    Bind(parse_bgp_attr_payload(len.rest, code.val, len.val), LAMBDA data :
    IF data.st # "Ok" THEN Fail(data.st, i) ELSE
    Ok(data.rest, BGPPathAttribute(flags.val, code.val, len.val, data.val))))))

\* a faulty variant of AttrsLoopCond: the loop goes on while
\* total_length <= length
AttrsLoopCond_OffByOne(total, budget) == total <= budget

\* `while total_length < length`
AttrsLoopCond(total, budget) == total < budget

\* a faulty variant of BytesRead: one byte of the attribute is not counted
BytesRead_Undercount(before, after) == Len(before) - Len(after) - 1

\* a faulty variant of the accounting: the payload bytes only, without the
\* flags, code and length bytes
BytesRead_PayloadOnly(before, after) == Len(before) - Len(after) - 3

\* let bytes_read = input.len() - v.0.len()
BytesRead(before, after) == Len(before) - Len(after)

\* one iteration of the while loop of parse_bgp_path_attrs on the loop
\* state s = [input, total_length, results, pc]
AttrsLoopBody(s) ==
    Bind(parse_bgp_path_attr(s.input), LAMBDA res :
    IF res.st = "Ok"
    THEN [input |-> res.rest,
          total_length |-> s.total_length + BytesRead(s.input, res.rest),
          results |-> Append(s.results, res.val),
          pc |-> "loop"]
    ELSE [s EXCEPT !.pc = "panic"])              \* panic!("Bad parse on BGP data")

RECURSIVE AttrsLoop(_, _)
AttrsLoop(s, budget) ==
    IF s.pc # "loop" THEN s
    ELSE IF AttrsLoopCond(s.total_length, budget)
         THEN Bind(AttrsLoopBody(s), LAMBDA t : AttrsLoop(t, budget))
         ELSE [s EXCEPT !.pc = "ok"]             \* Ok((input, results))

\* the whole function: [st, rest, val] as for the nom primitives
parse_bgp_path_attrs(i, budget) ==
    Bind(AttrsLoop([input |-> i, total_length |-> 0,
                    results |-> <<>>, pc |-> "loop"], budget), LAMBDA s :
    IF s.pc = "ok" THEN Ok(s.input, s.results) ELSE Fail("Panic", s.input))

\* parse_as_path walks an AS_PATH payload while rendering it: the segments
\* it writes (each AS number as the 4 bytes it prints), and whether it
\* panics on an index past the payload or on a checked u8 overflow.
\* `while j < asn_count`, i 0-based: each turn prints buffer[i] .. buffer[i + 3]
\* and adds 4 to i, so it prints the AS numbers that lie wholly inside the
\* buffer and panics on the first that does not
AsPathMembers(b, i, n) ==
    Bind(IF i < Len(b) THEN (Len(b) - i) \div 4 ELSE 0, LAMBDA whole :
    Bind(IF n <= whole THEN n ELSE whole, LAMBDA printed :
    [panic |-> n > whole, i |-> i + 4 * printed,
     members |-> [k \in 1 .. printed |-> SubSeq(b, i + 4 * (k - 1) + 1, i + 4 * k)]]))

\* String::with_capacity((asn_count * 4 + (asn_count - 1)) as usize), in u8
AsSeqCapacityOverflows(asn_count) ==
    asn_count = 0 \/ asn_count * 4 > 255 \/ asn_count * 4 + (asn_count - 1) > 255

RECURSIVE AsPathLoop(_, _)
AsPathLoop(b, i) ==              \* `while i < buffer.len()`
    IF ~(i < Len(b)) THEN [panic |-> FALSE, segments |-> <<>>]
    ELSE IF b[i + 1] \in {1, 2}
    THEN IF i + 1 >= Len(b)      \* buffer[i] after i += 1
         THEN [panic |-> TRUE, segments |-> <<>>]
         ELSE IF b[i + 1] = 2 /\ overflow_checks /\ AsSeqCapacityOverflows(b[i + 2])
         THEN [panic |-> TRUE, segments |-> <<>>]
         ELSE Bind(AsPathMembers(b, i + 2, b[i + 2]), LAMBDA m :
              Bind([kind |-> IF b[i + 1] = 1 THEN "AS_SET" ELSE "AS_SEQ",
                    members |-> m.members], LAMBDA seg :
              IF m.panic THEN [panic |-> TRUE, segments |-> <<seg>>]
              ELSE Bind(AsPathLoop(b, m.i), LAMBDA more :
                   [more EXCEPT !.segments = <<seg>> \o more.segments])))
    ELSE Bind(AsPathLoop(b, i + 1), LAMBDA more :
         [more EXCEPT !.segments =
              <<[kind |-> "AS_UNKNOWN", members |-> <<>>]>> \o more.segments])

parse_as_path(b) == AsPathLoop(b, 0)

\* impl fmt::Display for BGPPathAttribute: TRUE when rendering panics
DisplayAttrPanics(a) ==
    CASE a.code = 1 -> Len(a.data) = 0                 \* self.data[0]
      [] a.code = 2 -> parse_as_path(a.data).panic
      [] OTHER -> FALSE

(***************************************************************************)
(* src/main.rs                                                             *)
(***************************************************************************)
be_u32(i) ==
    IF Len(i) < 4 THEN Fail("Err", i)
    ELSE Ok(Drop(i, 4), ((i[1] * 256 + i[2]) * 256 + i[3]) * 256 + i[4])

\* be_u128: the value is kept as its 16 octets (it only becomes an Ipv6Addr)
be_u128(i) ==
    IF Len(i) < 16 THEN Fail("Err", i)
    ELSE Ok(Drop(i, 16), Take(i, 16))

\* take!(n). A count n < 0 stands for the u32 n + 2^32 that a wrapped
\* subtraction left: more bytes than any slice of the model holds.
take(i, n) ==
    IF n < 0 \/ Len(i) < n THEN Fail("Err", i)
    ELSE Ok(Drop(i, n), Take(i, n))

MRTHeader(timestamp, mrt_type, mrt_subtype, len) ==
    [timestamp |-> timestamp, mrt_type |-> mrt_type,
     mrt_subtype |-> mrt_subtype, length |-> len]

\* no header read yet
NoHeader == MRTHeader(0, 0, 0, 0)

parse_mrt_table_header(i) ==
    Bind(be_u32(i), LAMBDA timestamp :
    IF timestamp.st # "Ok" THEN Fail(timestamp.st, i) ELSE
    Bind(be_u16(timestamp.rest), LAMBDA mrt_type :
    IF mrt_type.st # "Ok" THEN Fail(mrt_type.st, i) ELSE
    Bind(be_u16(mrt_type.rest), LAMBDA mrt_subtype :
    IF mrt_subtype.st # "Ok" THEN Fail(mrt_subtype.st, i) ELSE
    Bind(be_u32(mrt_subtype.rest), LAMBDA len :
    IF len.st # "Ok" THEN Fail(len.st, i) ELSE
    Ok(len.rest, MRTHeader(timestamp.val, mrt_type.val, mrt_subtype.val, len.val))))))

\* an address of a TABLE_DUMP record is a be_u32 or a be_u128
be_addr(i, octets) == IF octets = 4 THEN be_u32(i) ELSE be_u128(i)

\* parse_mrt_table_dump_ipv4 / parse_mrt_table_dump_ipv6, which differ in
\* the width of prefix and peer_address only
TableDumpRecord(i, addr) ==
    Bind(be_u16(i), LAMBDA view_number :
    IF view_number.st # "Ok" THEN Fail(view_number.st, i) ELSE
    Bind(be_u16(view_number.rest), LAMBDA sequence_number :
    IF sequence_number.st # "Ok" THEN Fail(sequence_number.st, i) ELSE
    Bind(be_addr(sequence_number.rest, addr), LAMBDA prefix :
    IF prefix.st # "Ok" THEN Fail(prefix.st, i) ELSE
    Bind(be_u8(prefix.rest), LAMBDA prefix_length :
    IF prefix_length.st # "Ok" THEN Fail(prefix_length.st, i) ELSE
    Bind(be_u8(prefix_length.rest), LAMBDA status :
    IF status.st # "Ok" THEN Fail(status.st, i) ELSE
    Bind(be_u32(status.rest), LAMBDA originated_time :
    IF originated_time.st # "Ok" THEN Fail(originated_time.st, i) ELSE
    Bind(be_addr(originated_time.rest, addr), LAMBDA peer_address :
    IF peer_address.st # "Ok" THEN Fail(peer_address.st, i) ELSE
    Bind(be_u16(peer_address.rest), LAMBDA peer_asn :
    IF peer_asn.st # "Ok" THEN Fail(peer_asn.st, i) ELSE
    Bind(be_u16(peer_asn.rest), LAMBDA attr_length :
    IF attr_length.st # "Ok" THEN Fail(attr_length.st, i) ELSE
    Bind(take(attr_length.rest, attr_length.val), LAMBDA as_path :
    IF as_path.st # "Ok" THEN Fail(as_path.st, i) ELSE
    Ok(as_path.rest,
       [prefix_length |-> prefix_length.val, attr_length |-> attr_length.val,
        as_path |-> as_path.val])))))))))))

parse_mrt_table_dump_ipv4(i) == TableDumpRecord(i, 4)

parse_mrt_table_dump_ipv6(i) == TableDumpRecord(i, 16)

\* Result<&[u8], String>: "Ok" with the remaining slice, "Err", or a panic
parse_mrt_table_dump(hdr, reader) ==
    CASE hdr.mrt_subtype = 1 ->                                 \* AFI_IPv4
           Bind(parse_mrt_table_dump_ipv4(reader), LAMBDA result :
           IF result.st = "Ok" THEN Ok(result.rest, "AFI_IPv4")
           ELSE Fail("Panic", reader))                          \* .unwrap()
      [] hdr.mrt_subtype = 2 ->                                 \* AFI_IPv6
           Bind(parse_mrt_table_dump_ipv6(reader), LAMBDA result :
           IF result.st = "Ok" THEN Ok(result.rest, "AFI_IPv6")
           ELSE Fail("Panic", reader))                          \* .unwrap()
      [] OTHER -> Fail("Err", reader)                           \* Err("No match")

RibEntry(peer_index, originated_timestamp, attr_length, bgp_path_attrs) ==
    [peer_index |-> peer_index, originated_timestamp |-> originated_timestamp,
     attr_length |-> attr_length, bgp_path_attrs |-> bgp_path_attrs]

\* a faulty variant of parse_rib_entry: the attributes are decoded with
\* all that is left of the record as budget, not the entry's attr_length
parse_rib_entry_WholeRest(i) ==
    Bind(be_u16(i), LAMBDA peer_index :
    IF peer_index.st # "Ok" THEN Fail(peer_index.st, i) ELSE
    Bind(be_u32(peer_index.rest), LAMBDA originated_timestamp :
    IF originated_timestamp.st # "Ok" THEN Fail(originated_timestamp.st, i) ELSE
    Bind(be_u16(originated_timestamp.rest), LAMBDA attr_length :
    IF attr_length.st # "Ok" THEN Fail(attr_length.st, i) ELSE
    Bind(parse_bgp_path_attrs(attr_length.rest, Len(attr_length.rest)), LAMBDA bgp_path_attrs :
    IF bgp_path_attrs.st # "Ok" THEN Fail(bgp_path_attrs.st, i) ELSE
    Ok(bgp_path_attrs.rest,
       RibEntry(peer_index.val, originated_timestamp.val, attr_length.val,
                bgp_path_attrs.val))))))

parse_rib_entry(i) ==
    Bind(be_u16(i), LAMBDA peer_index :
    IF peer_index.st # "Ok" THEN Fail(peer_index.st, i) ELSE
    Bind(be_u32(peer_index.rest), LAMBDA originated_timestamp :
    IF originated_timestamp.st # "Ok" THEN Fail(originated_timestamp.st, i) ELSE
    Bind(be_u16(originated_timestamp.rest), LAMBDA attr_length :
    IF attr_length.st # "Ok" THEN Fail(attr_length.st, i) ELSE
    Bind(parse_bgp_path_attrs(attr_length.rest, attr_length.val), LAMBDA bgp_path_attrs :
    IF bgp_path_attrs.st # "Ok" THEN Fail(bgp_path_attrs.st, i) ELSE
    Ok(bgp_path_attrs.rest,
       RibEntry(peer_index.val, originated_timestamp.val, attr_length.val,
                bgp_path_attrs.val))))))

\* count!(parse_rib_entry, entry_count as usize)
RECURSIVE parse_rib_entries(_, _)
parse_rib_entries(i, entry_count) ==
    IF entry_count = 0 THEN Ok(i, <<>>)
    ELSE Bind(parse_rib_entry(i), LAMBDA e :
         IF e.st # "Ok" THEN Fail(e.st, i) ELSE
         Bind(parse_rib_entries(e.rest, entry_count - 1), LAMBDA more :
         IF more.st # "Ok" THEN Fail(more.st, i) ELSE
         Ok(more.rest, <<e.val>> \o more.val)))

\* u32::from((prefix_length + 7) / 8): the sum is a u8, so it overflows
\* from 249 on: a panic with overflow checks, a wrap modulo 256 without
prefix_octet_count(prefix_length) ==
    IF prefix_length + 7 > 255
    THEN IF overflow_checks THEN Fail("Panic", <<>>)
         ELSE Ok(<<>>, ((prefix_length + 7) % 256) \div 8)
    ELSE Ok(<<>>, (prefix_length + 7) \div 8)

\* make_addr: `24 - 8 * i` underflows at the fifth prefix octet
make_addr_panics(prefix) == overflow_checks /\ Len(prefix) > 4

\* impl Display for MRTTableDumpV2IPv4Unicast and for RibEntry: TRUE when
\* rendering the record panics
DisplayV4UnicastPanics(rec) ==
    \/ make_addr_panics(rec.prefix)
    \/ \E e \in 1 .. Len(rec.rib_entries) :
         \E a \in 1 .. Len(rec.rib_entries[e].bgp_path_attrs) :
            DisplayAttrPanics(rec.rib_entries[e].bgp_path_attrs[a])

RibRecord(sequence_number, prefix_length, prefix, entry_count, rib_entries) ==
    [sequence_number |-> sequence_number, prefix_length |-> prefix_length,
     prefix |-> prefix, entry_count |-> entry_count, rib_entries |-> rib_entries]

parse_mrt_table_dump_v2_ipv4_unicast(i, hdr) ==
    Bind(be_u32(i), LAMBDA sequence_number :
    IF sequence_number.st # "Ok" THEN Fail(sequence_number.st, i) ELSE
    Bind(be_u8(sequence_number.rest), LAMBDA prefix_length :
    IF prefix_length.st # "Ok" THEN Fail(prefix_length.st, i) ELSE
    Bind(prefix_octet_count(prefix_length.val), LAMBDA octets :
    IF octets.st # "Ok" THEN Fail(octets.st, i) ELSE
    Bind(take(prefix_length.rest, octets.val), LAMBDA prefix :
    IF prefix.st # "Ok" THEN Fail(prefix.st, i) ELSE
    Bind(be_u16(prefix.rest), LAMBDA entry_count :
    IF entry_count.st # "Ok" THEN Fail(entry_count.st, i) ELSE
    Bind(parse_rib_entries(entry_count.rest, entry_count.val), LAMBDA rib_entries :
    IF rib_entries.st # "Ok" THEN Fail(rib_entries.st, i) ELSE
    Ok(rib_entries.rest,
       RibRecord(sequence_number.val, prefix_length.val, prefix.val,
                 entry_count.val, rib_entries.val))))))))

\* a - b in u32, a = [st, val]: a negative val stands for the wrapped
\* a - b + 2^32
sub_u32(a, b) ==
    IF a.st # "Ok" THEN a
    ELSE IF a.val >= 0 /\ a.val - b < 0 /\ overflow_checks THEN Fail("Panic", <<>>)
    ELSE Ok(<<>>, a.val - b)

\* header.length - size_of::<u32>() - size_of::<u8>()
\*               - prefix_octet_count(prefix_length) - size_of::<u16>()
RibEntriesLengthV6(hdr, prefix_length) ==
    Bind(prefix_octet_count(prefix_length), LAMBDA octets :
    IF octets.st # "Ok" THEN octets ELSE
    Bind(sub_u32(Ok(<<>>, hdr.length), 4), LAMBDA d1 :
    Bind(sub_u32(d1, 1), LAMBDA d2 :
    Bind(sub_u32(d2, octets.val), LAMBDA d3 :
    sub_u32(d3, 2)))))

parse_mrt_table_dump_v2_ipv6_unicast(i, hdr) ==
    Bind(be_u32(i), LAMBDA sequence_number :
    IF sequence_number.st # "Ok" THEN Fail(sequence_number.st, i) ELSE
    Bind(be_u8(sequence_number.rest), LAMBDA prefix_length :
    IF prefix_length.st # "Ok" THEN Fail(prefix_length.st, i) ELSE
    Bind(prefix_octet_count(prefix_length.val), LAMBDA octets :
    IF octets.st # "Ok" THEN Fail(octets.st, i) ELSE
    Bind(take(prefix_length.rest, octets.val), LAMBDA prefix :
    IF prefix.st # "Ok" THEN Fail(prefix.st, i) ELSE
    Bind(be_u16(prefix.rest), LAMBDA entry_count :
    IF entry_count.st # "Ok" THEN Fail(entry_count.st, i) ELSE
    Bind(RibEntriesLengthV6(hdr, prefix_length.val), LAMBDA n :
    IF n.st # "Ok" THEN Fail(n.st, i) ELSE
    Bind(take(entry_count.rest, n.val), LAMBDA rib_entries :
    IF rib_entries.st # "Ok" THEN Fail(rib_entries.st, i) ELSE
    Ok(rib_entries.rest,
       RibRecord(sequence_number.val, prefix_length.val, prefix.val,
                 entry_count.val, rib_entries.val)))))))))

parse_mrt_table_dump_v2(hdr, reader) ==
    CASE hdr.mrt_subtype = 1 ->                                 \* PEER_INDEX_TABLE
           IF hdr.length > Len(reader) THEN Fail("Panic", reader)
           ELSE Ok(Drop(reader, hdr.length), "PEER_INDEX_TABLE")
      [] hdr.mrt_subtype = 2 ->                                 \* RIB_IPV4_UNICAST
           Bind(parse_mrt_table_dump_v2_ipv4_unicast(reader, hdr), LAMBDA result :
           IF result.st # "Ok" THEN Fail("Panic", reader)       \* .unwrap()
           ELSE IF DisplayV4UnicastPanics(result.val) THEN Fail("Panic", reader)
           ELSE Ok(result.rest, "RIB_IPV4_UNICAST"))
      [] hdr.mrt_subtype = 4 ->                                 \* RIB_IPV6_UNICAST
           Bind(parse_mrt_table_dump_v2_ipv6_unicast(reader, hdr), LAMBDA result :
           IF result.st # "Ok" THEN Fail("Panic", reader)       \* .unwrap()
           ELSE Ok(result.rest, "RIB_IPV6_UNICAST"))
      [] hdr.mrt_subtype \in {3, 5, 6} ->                       \* not implemented
           Fail("Err", reader)
      [] OTHER -> Fail("Err", reader)                           \* Err("No match")

\* the match on MRTType::from_u16(result.mrt_type) in main
Dispatch(result, body) ==
    CASE result.mrt_type = 12 -> parse_mrt_table_dump(result, body)
      [] result.mrt_type = 13 -> parse_mrt_table_dump_v2(result, body)
      [] OTHER -> Fail("Unhandled", body)

\* one iteration of `loop` in main on the slice buf:
\* [pc, buffer, header, outcome]
MainLoopBody(buf) ==
    Bind(parse_mrt_table_header(buf), LAMBDA hd :
    IF hd.st # "Ok"                                             \* .unwrap()
    THEN [pc |-> "panic", buffer |-> buf, header |-> NoHeader, outcome |-> "HeaderErr"]
    ELSE Bind(Dispatch(hd.val, hd.rest), LAMBDA r :             \* buffer = header.0
         CASE r.st = "Ok" ->                                    \* buffer = a
                [pc |-> "loop", buffer |-> r.rest, header |-> hd.val, outcome |-> "Ok"]
           [] r.st = "Panic" ->
                [pc |-> "panic", buffer |-> hd.rest, header |-> hd.val, outcome |-> "Panic"]
           [] OTHER ->                                          \* Err(_err) => {}
                [pc |-> "loop", buffer |-> hd.rest, header |-> hd.val, outcome |-> r.st]))

(***************************************************************************)
(* The attribute decoder as a state machine: one action per loop           *)
(* iteration.                                                              *)
(***************************************************************************)
\* parse_good_test / parse_good_test_long_buffer
GoodTestBuffer ==
    <<64, 1, 1, 0,
      80, 2, 0, 22, 2, 5, 0, 0, 164, 125, 0, 0, 163, 237, 0, 0, 163, 149,
      0, 0, 81, 35, 0, 0, 13, 28,
      64, 3, 4, 91, 103, 24, 2>>

GoodTestLongBuffer == GoodTestBuffer \o <<0, 0>>

GoodTestExpected ==
    << BGPPathAttribute(64, 1, 1, <<0>>),
       BGPPathAttribute(80, 2, 22, <<2, 5, 0, 0, 164, 125, 0, 0, 163, 237,
                                     0, 0, 163, 149, 0, 0, 81, 35, 0, 0, 13, 28>>),
       BGPPathAttribute(64, 3, 4, <<91, 103, 24, 2>>) >>

\* main is not running
MainIdle ==
    /\ file = <<>>
    /\ buffer = <<>>
    /\ header = NoHeader
    /\ header_at = 0
    /\ outcome = "none"
    /\ main_pc = "idle"

\* prefix_octet_count is not being called on its own
PocIdle ==
    /\ poc_arg = 0
    /\ poc_res = Fail("none", <<>>)
    /\ poc_pc = "idle"

\* parse_as_path is not being called on its own
PathIdle ==
    /\ path_wire = <<>>
    /\ path_buffer = <<>>
    /\ path_res = [panic |-> FALSE, segments |-> <<>>]
    /\ path_pc = "idle"

\* parse_mrt_table_dump_v2_ipv4_unicast is not being called on its own
RibIdle ==
    /\ rib_header = NoHeader
    /\ rib_input = <<>>
    /\ rib_res = Fail("none", <<>>)
    /\ rib_pc = "idle"

\* parse_bgp_path_attrs is not being called on its own
AttrIdle ==
    /\ attr_buffer = <<>>
    /\ input = <<>>
    /\ length = 0
    /\ total_length = 0
    /\ results = <<>>
    /\ attr_pc = "idle"

AttrInit ==
    /\ MainIdle
    /\ PocIdle
    /\ PathIdle
    /\ RibIdle
    /\ overflow_checks \in BOOLEAN
    /\ \/ /\ attr_buffer \in SeqsUpTo(ByteVals, MaxBuf)
          /\ length \in 0 .. MaxBuf + 1
       \/ /\ attr_buffer \in {GoodTestBuffer, GoodTestLongBuffer}
          /\ length = Len(GoodTestBuffer)
    /\ input = attr_buffer
    /\ total_length = 0
    /\ results = <<>>
    /\ attr_pc = "loop"

AttrIterate ==
    /\ attr_pc = "loop"
    /\ AttrsLoopCond(total_length, length)
    /\ LET s == AttrsLoopBody([input |-> input, total_length |-> total_length,
                               results |-> results, pc |-> attr_pc])
       IN  /\ input' = s.input
           /\ total_length' = s.total_length
           /\ results' = s.results
           /\ attr_pc' = s.pc
    /\ UNCHANGED <<attr_buffer, length, mainVars, pocVars, pathVars, ribVars,
                   overflow_checks>>

AttrReturn ==
    /\ attr_pc = "loop"
    /\ ~AttrsLoopCond(total_length, length)
    /\ attr_pc' = "ok"
    /\ UNCHANGED <<attr_buffer, input, length, total_length, results,
                   mainVars, pocVars, pathVars, ribVars, overflow_checks>>

AttrNext == AttrIterate \/ AttrReturn

SpecAttrs == AttrInit /\ [][AttrNext]_vars

(***************************************************************************)
(* The top-level loop of main as a state machine: one action per           *)
(* iteration of `loop`. The input files are sequences of at most           *)
(* MaxRecords records drawn from RecordTemplates, with up to MaxCut bytes  *)
(* cut off the end.                                                        *)
(***************************************************************************)
MaxRecords == 2

MaxCut == 1

U16(n) == <<n \div 256, n % 256>>
U32(n) == <<0, 0>> \o U16(n)

MRTRecordBytes(mrt_type, mrt_subtype, len, body) ==
    U32(1) \o U16(mrt_type) \o U16(mrt_subtype) \o U32(len) \o body

OriginAttr == <<64, 1, 1, 0>>
NextHopAttr == <<64, 3, 4, 10, 0, 0, 1>>
AsPathAttr == <<80, 2, 0, 6, 2, 1, 0, 0, 0, 7>>

RibEntryBytes(peer_index, attrs) == U16(peer_index) \o U32(5) \o U16(Len(attrs)) \o attrs

RibBody(prefix_length, prefix, entry_count, entries) ==
    U32(3) \o <<prefix_length>> \o prefix \o U16(entry_count) \o entries

V4OneEntry == RibBody(8, <<10>>, 1, RibEntryBytes(1, OriginAttr))

V4TwoEntries ==
    RibBody(9, <<10, 0>>, 2,
            RibEntryBytes(1, <<>>) \o RibEntryBytes(2, OriginAttr \o AsPathAttr \o NextHopAttr))

TableDumpBody(addr) == U16(0) \o U16(1) \o addr \o <<8, 1>> \o U32(5) \o addr \o U16(7)
                           \o U16(Len(OriginAttr)) \o OriginAttr

Ipv4Octets == <<10, 0, 0, 1>>
Ipv6Octets == <<32, 1>> \o [k \in 1 .. 14 |-> 0]

\* [mrt_type, mrt_subtype, declared length, body bytes]
Template(mrt_type, mrt_subtype, len, body) == MRTRecordBytes(mrt_type, mrt_subtype, len, body)

RecordTemplates ==
    { \* TABLE_DUMP_V2
      Template(13, 1, 3, <<0, 1, 0>>),                               \* PEER_INDEX_TABLE
      Template(13, 2, Len(V4OneEntry), V4OneEntry),                  \* RIB_IPV4_UNICAST
      Template(13, 2, Len(V4TwoEntries), V4TwoEntries),
      Template(13, 2, Len(V4OneEntry) + 2, V4OneEntry \o <<0, 0>>),  \* declared longer than its entries
      Template(13, 2, 7, RibBody(0, <<>>, 0, <<>>)),
      Template(13, 2, 7, RibBody(250, <<>>, 0, <<>>)),               \* prefix_length + 7 overflows u8
      Template(13, 3, 2, <<1, 1>>),                                  \* RIB_IPV4_MULTICAST
      Template(13, 5, 0, <<>>),                                      \* RIB_IPV6_MULTICAST
      Template(13, 6, 1, <<9>>),                                     \* RIB_GENERIC
      Template(13, 4, 12, RibBody(16, <<32, 1>>, 1, <<7, 7, 7>>)),   \* RIB_IPV6_UNICAST
      Template(13, 4, 3, RibBody(0, <<>>, 0, <<>>)),                 \* declared shorter than the fixed fields
      Template(13, 9, 2, <<0, 0>>),                                  \* no such subtype
      \* TABLE_DUMP
      Template(12, 1, Len(TableDumpBody(Ipv4Octets)), TableDumpBody(Ipv4Octets)),
      Template(12, 2, Len(TableDumpBody(Ipv6Octets)), TableDumpBody(Ipv6Octets)),
      Template(12, 3, 1, <<0>>),
      \* BGP4MP: a type main does not handle
      Template(16, 4, 2, <<0, 0>>) }

RECURSIVE Files(_)
Files(n) ==
    IF n = 0 THEN {<<>>}
    ELSE LET shorter == Files(n - 1)
         IN  shorter \cup {f \o r : f \in shorter, r \in RecordTemplates}

MainInit ==
    /\ AttrIdle
    /\ PocIdle
    /\ PathIdle
    /\ RibIdle
    /\ overflow_checks \in BOOLEAN
    /\ \E f \in Files(MaxRecords), cut \in 0 .. MaxCut :
          /\ cut <= Len(f)
          /\ file = Take(f, Len(f) - cut)
    /\ buffer = file
    /\ header = NoHeader
    /\ header_at = 0
    /\ outcome = "none"
    /\ main_pc = "loop"

MainIterate ==
    /\ main_pc = "loop"
    /\ LET s == MainLoopBody(buffer)
       IN  /\ buffer' = s.buffer
           /\ header' = s.header
           /\ header_at' = Len(file) - Len(buffer)
           /\ outcome' = s.outcome
           /\ main_pc' = s.pc
    /\ UNCHANGED <<file, attrVars, pocVars, pathVars, ribVars, overflow_checks>>

MainNext == MainIterate

SpecMain == MainInit /\ [][MainNext]_vars

\* the offset in file of the slice `buffer`
Offset == Len(file) - Len(buffer)

(***************************************************************************)
(* prefix_octet_count called on every u8.                                  *)
(***************************************************************************)
PocInit ==
    /\ AttrIdle
    /\ MainIdle
    /\ PathIdle
    /\ RibIdle
    /\ overflow_checks \in BOOLEAN
    /\ poc_arg \in 0 .. 255
    /\ poc_res = Fail("none", <<>>)
    /\ poc_pc = "call"

PocCall ==
    /\ poc_pc = "call"
    /\ poc_res' = prefix_octet_count(poc_arg)
    /\ poc_pc' = "done"
    /\ UNCHANGED <<poc_arg, attrVars, mainVars, pathVars, ribVars,
                   overflow_checks>>

PocNext == PocCall

SpecPrefix == PocInit /\ [][PocNext]_vars

(***************************************************************************)
(* The wire format of a path attribute, as the claims state it: flags,     *)
(* code, a 1-byte length (2 bytes big-endian when flags has 0x10), then    *)
(* `length` payload bytes.                                                 *)
(***************************************************************************)
EncodeAttr(a) ==
    <<a.flags, a.code>>
        \o (IF ExtendedLength(a.flags) THEN <<a.len \div 256, a.len % 256>> ELSE <<a.len>>)
        \o a.data

RECURSIVE EncodeAll(_)
EncodeAll(as) == IF as = <<>> THEN <<>> ELSE EncodeAttr(Head(as)) \o EncodeAll(Tail(as))

\* b is a concatenation of complete attribute encodings
RECURSIVE WellFormedEncoding(_)
WellFormedEncoding(b) ==
    IF b = <<>> THEN TRUE
    ELSE /\ Len(b) >= 3
         /\ LET ext == ExtendedLength(b[1])
                hdr == IF ext THEN 4 ELSE 3
            IN  /\ Len(b) >= hdr
                /\ LET len == IF ext THEN b[3] * 256 + b[4] ELSE b[3]
                   IN  /\ Len(b) >= hdr + len
                       /\ WellFormedEncoding(Drop(b, hdr + len))

\* the first B bytes of buf are a concatenation of attribute encodings
WellFormed(buf, B) == B <= Len(buf) /\ WellFormedEncoding(Take(buf, B))

(***************************************************************************)
(* Claims on the path-attribute decoder (checked under SpecAttrs).         *)
(***************************************************************************)

\* C1: on a buffer whose first `length` bytes are well-formed attribute
\* encodings, parse_bgp_path_attrs never fails on a read past the end of
\* the slice, its slice stays inside the buffer, and when it returns it has
\* consumed exactly `length` bytes: the remaining input starts at offset
\* `length`.
C1_ConsumesExactlyBudget ==
    WellFormed(attr_buffer, length) =>
        /\ attr_pc # "panic"
        /\ total_length <= Len(attr_buffer)
        /\ input = Drop(attr_buffer, total_length)
        /\ attr_pc = "ok" => /\ total_length = length
                             /\ input = Drop(attr_buffer, length)

C1_Witness ==
    /\ attr_pc = "ok"
    /\ WellFormed(attr_buffer, length)
    /\ length > 0
    /\ Len(results) >= 2

\* C2: decoding the concatenation of the encodings of a1..an with the
\* total encoded length as budget returns exactly a1..an in wire order:
\* the returned attributes re-encode to the first `length` bytes, each
\* payload has exactly `len` bytes, and the test vector of parse_good_test
\* decodes to its three attributes.
C2_ReturnsEncodedAttributes ==
    (attr_pc = "ok" /\ WellFormed(attr_buffer, length)) =>
        /\ EncodeAll(results) = Take(attr_buffer, length)
        /\ \A k \in 1 .. Len(results) : Len(results[k].data) = results[k].len
        /\ (attr_buffer = GoodTestBuffer) => results = GoodTestExpected

C2_Witness ==
    /\ attr_pc = "ok"
    /\ attr_buffer = GoodTestBuffer
    /\ length = Len(GoodTestBuffer)
    /\ Len(results) = 3
    /\ ExtendedLength(results[2].flags)
    /\ ~ExtendedLength(results[1].flags)

\* C3: with trailing bytes after a well-formed encoding of `length` bytes,
\* the decoder reports the attributes it reports for the first `length`
\* bytes alone, and what it returns as remaining input is exactly the
\* trailing bytes.
C3_TrailingBytesUntouched ==
    (attr_pc = "ok" /\ WellFormed(attr_buffer, length)) =>
        /\ input = Drop(attr_buffer, length)
        /\ LET alone == parse_bgp_path_attrs(Take(attr_buffer, length), length)
           IN  alone.st = "Ok" /\ alone.rest = <<>> /\ results = alone.val
        /\ (attr_buffer = GoodTestLongBuffer) =>
               results = GoodTestExpected /\ input = <<0, 0>>

C3_Witness ==
    /\ attr_pc = "ok"
    /\ WellFormed(attr_buffer, length)
    /\ Len(attr_buffer) > length
    /\ input # <<>>
    /\ Len(results) >= 2

\* C7: the bytes consumed by the attribute loop never exceed the budget;
\* an attribute that would carry the total past the budget makes the
\* decoder fail instead of returning.
C7_NeverExceedsBudget ==
    attr_pc \in {"loop", "ok"} => total_length <= length

\* C8: a buffer shorter than the declared attribute length never makes
\* the decoder panic (it returns an error value instead).
C8_TruncatedNeverPanics ==
    Len(attr_buffer) < length => attr_pc # "panic"

(***************************************************************************)
(* Claims on the top-level loop (checked under SpecMain).                  *)
(***************************************************************************)

\* C4: every MRT header is read at a record boundary: once a record with
\* header at offset p and declared body length L has been processed,
\* whatever its outcome, the next header is read at p + 12 + L.
C4_NextHeaderAtRecordBoundary ==
    (main_pc = "loop" /\ outcome \in {"Ok", "Err", "Unhandled"}) =>
        Offset = header_at + 12 + header.length

\* C5: a TABLE_DUMP_V2 record of subtype 3, 5 or 6 makes the decoder
\* return an error, the loop goes on, and the record body is skipped by
\* its declared length.
C5_UnsupportedSubtypeSkipsBody ==
    (outcome # "none" /\ header.mrt_type = 13 /\ header.mrt_subtype \in {3, 5, 6}) =>
        /\ outcome = "Err"
        /\ main_pc = "loop"
        /\ Offset = header_at + 12 + header.length

\* C6: when the buffer is exhausted exactly at a record boundary (after at
\* least one record), the loop ends normally and not by an error.
C6_EndOfStreamIsNormal ==
    (header_at > 0 /\ buffer = <<>> /\ outcome = "HeaderErr") => main_pc # "panic"

\* C9: a RIB_IPV4_UNICAST or RIB_IPV6_UNICAST record is decoded
\* successfully only when the bytes it consumed equal the declared body
\* length of its envelope.
C9_RibRecordLengthReconciled ==
    (outcome = "Ok" /\ header.mrt_type = 13 /\ header.mrt_subtype \in {2, 4}) =>
        Offset = header_at + 12 + header.length

(***************************************************************************)
(* Claims on prefix_octet_count (checked under SpecPrefix).                *)
(***************************************************************************)
Ceil8(p) == (p \div 8) + (IF p % 8 = 0 THEN 0 ELSE 1)

\* C10: for every prefix length 0..255, prefix_octet_count returns
\* ceil(p/8), without overflow of the 8-bit sum p + 7.
C10_PrefixOctetCountIsCeil ==
    poc_pc = "done" => (poc_res.st = "Ok" /\ poc_res.val = Ceil8(poc_arg))

(***************************************************************************)
(* parse_as_path called on AS_PATH payloads. A payload is the encoding of  *)
(* a list of segments: a type byte, a count byte and count 4-byte AS       *)
(* numbers each.                                                           *)
(***************************************************************************)
\* most segments in a payload
MaxSegs == 2

\* most AS numbers in a segment drawn member by member
MaxMembers == 2

\* AS numbers as their 4 bytes on the wire; the second holds the bytes 1
\* and 2, which are also segment types
AsNumbers == {<<0, 0, 0, 7>>, <<0, 0, 1, 2>>}

\* member counts at which asn_count * 4 + (asn_count - 1) leaves a u8
LargeCounts == {52, 64}

\* 1 = AS_SET, 2 = AS_SEQUENCE, 3 = a type the match has no arm for
SegmentTypes == {1, 2, 3}

Segment(type, members) == [type |-> type, members |-> members]

Segments ==
    {Segment(t, m) : t \in SegmentTypes, m \in SeqsUpTo(AsNumbers, MaxMembers)}

\* segments of a large member count
LargeSegments ==
    {Segment(t, [k \in 1 .. n |-> <<0, 0, 0, 7>>]) : t \in {1, 2}, n \in LargeCounts}

RECURSIVE Flatten(_)
Flatten(ss) == IF ss = <<>> THEN <<>> ELSE Head(ss) \o Flatten(Tail(ss))

\* the members' bytes one after another, four per AS number
MemberBytes(members) ==
    [k \in 1 .. 4 * Len(members) |-> members[((k - 1) \div 4) + 1][((k - 1) % 4) + 1]]

EncodeSegment(seg) == <<seg.type, Len(seg.members)>> \o MemberBytes(seg.members)

EncodeSegments(segs) == Flatten([k \in 1 .. Len(segs) |-> EncodeSegment(segs[k])])

\* the AS_PATH of parse_good_test: one AS_SEQUENCE of five AS numbers
GoodTestAsPath ==
    << Segment(2, << <<0, 0, 164, 125>>, <<0, 0, 163, 237>>, <<0, 0, 163, 149>>,
                     <<0, 0, 81, 35>>, <<0, 0, 13, 28>> >>) >>

PathInit ==
    /\ AttrIdle
    /\ MainIdle
    /\ PocIdle
    /\ RibIdle
    /\ overflow_checks \in BOOLEAN
    /\ path_wire \in SeqsUpTo(Segments, MaxSegs)
                       \cup {<<seg>> : seg \in LargeSegments}
                       \cup {GoodTestAsPath}
    /\ path_buffer = EncodeSegments(path_wire)
    /\ path_res = [panic |-> FALSE, segments |-> <<>>]
    /\ path_pc = "call"

PathCall ==
    /\ path_pc = "call"
    /\ path_res' = parse_as_path(path_buffer)
    /\ path_pc' = "done"
    /\ UNCHANGED <<path_wire, path_buffer, attrVars, mainVars, pocVars, ribVars,
                   overflow_checks>>

PathNext == PathCall

SpecAsPath == PathInit /\ [][PathNext]_vars

\* the segment a wire segment should be rendered as
KindOf(type) ==
    CASE type = 1 -> "AS_SET"
      [] type = 2 -> "AS_SEQ"
      [] OTHER -> "AS_UNKNOWN"

Rendered(segs) ==
    [k \in 1 .. Len(segs) |-> [kind |-> KindOf(segs[k].type),
                               members |-> segs[k].members]]

KnownTypesOnly(segs) == \A k \in 1 .. Len(segs) : segs[k].type \in {1, 2}

\* C11: for every payload that is a concatenation of AS_SET / AS_SEQUENCE
\* segments with any member count, parse_as_path yields the segments in
\* wire order, each with its kind and its members in wire order, stops at
\* the end of the payload, and neither overflows nor indexes out of bounds.
C11_SegmentsDecodedInWireOrder ==
    (path_pc = "done" /\ KnownTypesOnly(path_wire))
        => /\ ~path_res.panic
           /\ path_res.segments = Rendered(path_wire)

\* C11 in the build where u8 arithmetic wraps: the capacity is only a hint
C11_WrappingBuildDecodesInWireOrder ==
    (path_pc = "done" /\ KnownTypesOnly(path_wire) /\ ~overflow_checks)
        => /\ ~path_res.panic
           /\ path_res.segments = Rendered(path_wire)

IsKnown(seg) == seg.kind # "AS_UNKNOWN"

HasUnknownType(segs) == \E k \in 1 .. Len(segs) : segs[k].type \notin {1, 2}

\* no AS_SEQUENCE segment has a member count that overflows the capacity
SeqCountsInRange(segs) ==
    \A k \in 1 .. Len(segs) : segs[k].type = 2 => Len(segs[k].members) \in 1 .. 51

\* C14: a segment whose type byte is neither 1 nor 2 is reported as unknown,
\* the walk of the payload is not aborted, and the AS_SET / AS_SEQUENCE
\* segments of the payload are still decoded, each with its kind and members.
C14_UnknownSegmentIsRecoverable ==
    (path_pc = "done" /\ HasUnknownType(path_wire) /\ SeqCountsInRange(path_wire))
        => /\ ~path_res.panic
           /\ \E k \in 1 .. Len(path_res.segments) : ~IsKnown(path_res.segments[k])
           /\ SelectSeq(path_res.segments, IsKnown)
                  = SelectSeq(Rendered(path_wire), IsKnown)

\* C14 for unknown segments that are a lone type byte with a zero count
C14_EmptyUnknownSegments ==
    (/\ path_pc = "done" /\ HasUnknownType(path_wire) /\ SeqCountsInRange(path_wire)
     /\ \A k \in 1 .. Len(path_wire) :
           path_wire[k].type \notin {1, 2} => path_wire[k].members = <<>>)
        => /\ ~path_res.panic
           /\ SelectSeq(path_res.segments, IsKnown)
                  = SelectSeq(Rendered(path_wire), IsKnown)

(***************************************************************************)
(* The width of the length field (checked under SpecAttrs).                *)
(***************************************************************************)
\* bit 0x10 of a flags byte, whatever the other bits
Bit0x10(flags) == flags % 32 >= 16

\* the bytes an attribute occupies on the wire
WireSize(a) == (IF Bit0x10(a.flags) THEN 4 ELSE 3) + a.len

RECURSIVE WireSizes(_)
WireSizes(as) == IF as = <<>> THEN 0 ELSE WireSize(Head(as)) + WireSizes(Tail(as))

\* C12: the width of an attribute's length field is selected by bit 0x10 of
\* its flags alone: every decoded attribute has as len the 2 bytes after
\* its code read big-endian when the bit is set and the single byte after
\* its code otherwise, and occupies 4 + len resp. 3 + len bytes, so that
\* the next attribute starts right after it.
C12_LengthWidthFromBit0x10 ==
    attr_pc # "idle" =>
        /\ total_length = WireSizes(results)
        /\ \A k \in 1 .. Len(results) :
              LET at == WireSizes(Take(results, k - 1))
                  a == results[k]
              IN  /\ at + WireSize(a) <= Len(attr_buffer)
                  /\ a.flags = attr_buffer[at + 1]
                  /\ a.code = attr_buffer[at + 2]
                  /\ a.len = IF Bit0x10(a.flags)
                             THEN attr_buffer[at + 3] * 256 + attr_buffer[at + 4]
                             ELSE attr_buffer[at + 3]

C12_Witness ==
    /\ attr_pc = "ok"
    /\ \E j, k \in 1 .. Len(results) :
          /\ Bit0x10(results[j].flags) /\ results[j].flags # 16
          /\ results[j].len > 0
          /\ ~Bit0x10(results[k].flags) /\ results[k].flags # 0
          /\ results[k].len > 0

(***************************************************************************)
(* Progress of the path-attribute loop (checked under SpecAttrs).          *)
(***************************************************************************)
Ceil3(n) == (n + 2) \div 3

\* the iterations the loop has run: one per attribute decoded, and the one
\* that panicked
Iterations == Len(results) + (IF attr_pc = "panic" THEN 1 ELSE 0)

\* C16: every iteration of the loop of parse_bgp_path_attrs that decodes an
\* attribute adds at least 3 to total_length, the loop runs at most
\* ceil(length / 3) iterations, and with length 0 it returns no attribute
\* and the input unchanged.
C16_LoopMakesProgress ==
    /\ [][Len(results') = Len(results) + 1 => total_length' >= total_length + 3]_vars
    /\ [](attr_pc # "idle" =>
            /\ 3 * Len(results) <= total_length
            /\ Iterations <= Ceil3(length)
            /\ length = 0 => /\ attr_pc # "panic"
                             /\ results = <<>>
                             /\ input = attr_buffer)

C16_Witness ==
    /\ attr_pc = "ok"
    /\ Len(results) >= 2
    /\ Iterations = Ceil3(length)
    /\ total_length > length

(***************************************************************************)
(* parse_mrt_table_dump_v2_ipv4_unicast called on record bodies: the fixed *)
(* fields, a prefix, an entry count and RIB entries, each entry declaring  *)
(* an attribute length that is or is not the length of its attributes.     *)
(***************************************************************************)
\* most RIB entries in a body
MaxEntries == 2

AttrBlobs == {<<>>, OriginAttr, OriginAttr \o NextHopAttr, AsPathAttr}

\* [peer_index, originated_timestamp] of the entries drawn; with the
\* timestamp 2 the 8 bytes before an entry's attributes are themselves two
\* attribute encodings (00 pp 00 and 00 00 02 00 LL)
EntryFields == {<<1, 5>>, <<2, 2>>}

\* an entry whose attr_length is `short` less than its attributes' length
RibEntryBytesShort(fields, attrs, short) ==
    U16(fields[1]) \o U32(fields[2]) \o U16(Len(attrs) - short) \o attrs

EntryBlobs ==
    {RibEntryBytesShort(f, a, 0) : f \in EntryFields, a \in AttrBlobs}
    \cup {RibEntryBytesShort(f, a, 1) : f \in EntryFields, a \in AttrBlobs \ {<<>>}}

RibInit ==
    /\ AttrIdle
    /\ MainIdle
    /\ PocIdle
    /\ PathIdle
    /\ overflow_checks \in BOOLEAN
    /\ \E entries \in SeqsUpTo(EntryBlobs, MaxEntries),
          entry_count \in 0 .. MaxEntries + 1,
          prefix \in {<<>>, <<10>>},
          declared \in BOOLEAN :
          /\ rib_input = RibBody(8 * Len(prefix), prefix, entry_count, Flatten(entries))
          /\ rib_header = MRTHeader(1, 13, 2, IF declared THEN Len(rib_input) ELSE 0)
    /\ rib_res = Fail("none", <<>>)
    /\ rib_pc = "call"

RibCall ==
    /\ rib_pc = "call"
    /\ rib_res' = parse_mrt_table_dump_v2_ipv4_unicast(rib_input, rib_header)
    /\ rib_pc' = "done"
    /\ UNCHANGED <<rib_header, rib_input, attrVars, mainVars, pocVars, pathVars,
                   overflow_checks>>

RibNext == RibCall

SpecRib == RibInit /\ [][RibNext]_vars

\* the offset in the body at which entry k starts when the entries before
\* it are those of `entries` and the first starts at `first`
RECURSIVE EntryStart(_, _, _)
EntryStart(entries, first, k) ==
    IF k = 1 THEN first
    ELSE EntryStart(entries, first, k - 1)
             + 8 + WireSizes(entries[k - 1].bgp_path_attrs)

\* bytes at + 1 .. at + n of the body read big-endian
RECURSIVE BigEndian(_, _, _)
BigEndian(b, at, n) ==
    IF n = 0 THEN 0 ELSE BigEndian(b, at, n - 1) * 256 + b[at + n]

\* C13: a RIB_IPV4_UNICAST record decodes exactly entry_count RIB entries
\* one after another: each reads peer_index (2 bytes), originated_timestamp
\* (4 bytes) and attr_length (2 bytes), then its attributes are those
\* parse_bgp_path_attrs yields with that entry's attr_length as budget, and
\* the next entry starts at the byte where that decoding stopped.
C13_EntriesDecodedOneAfterAnother ==
    (rib_pc = "done" /\ rib_res.st = "Ok") =>
        LET rec == rib_res.val
            first == 4 + 1 + Len(rec.prefix) + 2
        IN  /\ rec.entry_count = BigEndian(rib_input, first - 2, 2)
            /\ Len(rec.rib_entries) = rec.entry_count
            /\ \A k \in 1 .. Len(rec.rib_entries) :
                  LET at == EntryStart(rec.rib_entries, first, k)
                      e == rec.rib_entries[k]
                      attrs == parse_bgp_path_attrs(Drop(rib_input, at + 8), e.attr_length)
                  IN  /\ e.peer_index = BigEndian(rib_input, at, 2)
                      /\ e.originated_timestamp = BigEndian(rib_input, at + 2, 4)
                      /\ e.attr_length = BigEndian(rib_input, at + 6, 2)
                      /\ attrs.st = "Ok"
                      /\ attrs.val = e.bgp_path_attrs
                      /\ attrs.rest = Drop(rib_input,
                                           EntryStart(rec.rib_entries, first, k) + 8
                                               + WireSizes(e.bgp_path_attrs))
            /\ rib_res.rest = Drop(rib_input,
                                   IF rec.rib_entries = <<>> THEN first
                                   ELSE EntryStart(rec.rib_entries, first,
                                                   Len(rec.rib_entries))
                                            + 8 + WireSizes(rec.rib_entries[
                                                      Len(rec.rib_entries)].bgp_path_attrs))

C13_Witness ==
    /\ rib_pc = "done"
    /\ rib_res.st = "Ok"
    /\ rib_res.val.entry_count = 2
    /\ rib_res.val.rib_entries[1].attr_length > 0
    /\ rib_res.val.rib_entries[2].attr_length > rib_res.val.rib_entries[1].attr_length
    /\ rib_res.val.rib_entries[1].peer_index # rib_res.val.rib_entries[2].peer_index
    /\ rib_res.val.rib_entries[1].bgp_path_attrs # <<>>
    /\ rib_header.length = 0

(***************************************************************************)
(* The derived length of RIB_IPV6_UNICAST (checked under SpecMain).        *)
(***************************************************************************)
\* the record of the last iteration is a RIB_IPV6_UNICAST whose body holds
\* the fields read before the subtraction: sequence_number, prefix_length,
\* the prefix octets and entry_count
V6FieldsPresent ==
    /\ header.mrt_type = 13 /\ header.mrt_subtype = 4
    /\ Len(file) >= header_at + 12 + 5
    /\ file[header_at + 12 + 5] <= 248
    /\ Len(file) >= header_at + 12 + 7 + Ceil8(file[header_at + 12 + 5])

\* C15: when header.length of a RIB_IPV6_UNICAST record is smaller than
\* 7 + prefix_octet_count(prefix_length), the subtraction that derives the
\* length of the RIB-entries region is caught: the decoder reports an
\* error, it neither wraps to a huge length nor panics.
C15_V6LengthUnderflowReported ==
    (/\ main_pc # "idle" /\ V6FieldsPresent
     /\ header.length < 7 + Ceil8(file[header_at + 12 + 5]))
        => /\ outcome = "Err"
           /\ main_pc # "panic"

====
